---- MODULE Spec2Model ----
(***************************************************************************)
(* Analysis job pipeline of blueolive-be: the worker's processAnalysis     *)
(* (worker.service), the Gemini client's analyzeGame (gemini.service), the *)
(* Analysis and Puzzle collections, and the puzzle service it calls.       *)
(*                                                                         *)
(* Every "await" of processAnalysis is a point where another invocation    *)
(* may run, so each action below is the code between two awaits.           *)
(***************************************************************************)
EXTENDS Integers, Sequences, FiniteSets, TLC

\* ------------------------------------------------------------------ bounds
\* Number of processAnalysis invocations the scheduler delivers.
MaxInvocations == 2
\* Number of store writes (document saves, puzzle inserts) that may fail.
MaxStoreFaults == 2

Workers == 1..MaxInvocations

\* ------------------------------------------------------------- enumerations
\* enum AnalysisStatus
PENDING == "PENDING"
PROCESSING == "PROCESSING"
COMPLETED == "COMPLETED"
FAILED == "FAILED"
AnalysisStatus == {PENDING, PROCESSING, COMPLETED, FAILED}

\* The guest principal: user_id of an unauthenticated submission.
Guest == "guest"

\* Analysis documents that exist: a1 belongs to a signed-in user, a2 to a guest.
\* a0 is an id that resolves to no document.
StoredIds == {"a1", "a2"}
RequestIds == StoredIds \cup {"a0"}

\* AnalysisSchema defaults: result is {} (Unset), error and completed_at absent.
Unset == <<>>
NoError == ""
NoDate == "none"
SomeDate == "date"

NewAnalysis(id, user) ==
    [analysis_id |-> id, user_id |-> user, status |-> PENDING, pgn |-> "pgn",
     player_name |-> "name", player_color |-> "white",
     metadata |-> [white |-> "name", black |-> "Unknown", result |-> "*"],
     result |-> Unset, error |-> NoError, completed_at |-> NoDate]

\* No document held by an invocation (before findOne, or findOne returned null).
Null == [analysis_id |-> "null"]

\* ------------------------------------------------------------------- state
VARIABLES
    analyses,      \* the Analysis collection: id -> stored document
    puzzles,       \* the Puzzle collection: set of stored puzzle documents
    nextPuzzleId,  \* source of fresh puzzle_id values
    apiKey,        \* whether GOOGLE_GENERATIVE_AI_API_KEY is set
    faults,        \* store writes that have failed so far
    genCalls,      \* id -> number of generateText calls made for that analysis
    pc,            \* invocation -> position in processAnalysis
    arg,           \* invocation -> the analysisId it was called with
    doc,           \* invocation -> its in-memory document (const analysis)
    modified,      \* invocation -> paths of doc changed since its last good save
    text,          \* invocation -> text generateText returned to it
    puzzleObjects, \* invocation -> number of puzzle objects in geminiResponse
    puzzleIds,     \* invocation -> let puzzleIds
    trail,         \* invocation -> the steps it has taken, with their outcomes
    outcome,       \* invocation -> "running", "returned" or "threw"
    owned,         \* the Analysis documents of the dashboard's user, newest first
    reply          \* what the dashboard service last returned

vars == <<analyses, puzzles, nextPuzzleId, apiKey, faults, genCalls, pc, arg, doc,
          modified, text, puzzleObjects, puzzleIds, trail, outcome, owned, reply>>

\* The dashboard service has not been called.
NoReply == [kind |-> "none"]

\* The worker's state before any invocation.
WorkerInit ==
    /\ analyses = [id \in StoredIds |->
                      NewAnalysis(id, IF id = "a1" THEN "u1" ELSE Guest)]
    /\ puzzles = {}
    /\ nextPuzzleId = 1
    /\ faults = 0
    /\ genCalls = [id \in StoredIds |-> 0]
    /\ pc = [w \in Workers |-> "idle"]
    /\ arg = [w \in Workers |-> "a0"]
    /\ doc = [w \in Workers |-> Null]
    /\ modified = [w \in Workers |-> {}]
    /\ text = [w \in Workers |-> <<>>]
    /\ puzzleObjects = [w \in Workers |-> 0]
    /\ puzzleIds = [w \in Workers |-> <<>>]
    /\ trail = [w \in Workers |-> <<>>]
    /\ outcome = [w \in Workers |-> "running"]

Init ==
    /\ WorkerInit
    /\ apiKey \in BOOLEAN
    /\ owned = <<>>
    /\ reply = NoReply

\* ------------------------------------------------- gemini.service: analyzeGame
\* A response text is a sequence of tokens: "{" and "}" are braces, "s" is a
\* scalar member ("summary": ...), "p" is one entry of the puzzles array, and
\* "x" is prose, which is not JSON.
GeminiTexts ==
    { <<"x">>,
      <<"}", "x", "{">>,
      <<"{", "x", "}">>,
      <<"{", "s", "}">>,
      <<"x", "{", "s", "p", "}", "x">>,
      <<"{", "s", "p", "p", "}">>,
      <<"{", "s", "p", "}", "x", "{", "}">> }

MsgNoApiKey == "GOOGLE_GENERATIVE_AI_API_KEY environment variable is not set"
MsgService == "generateText failed"
MsgNoJson == "Failed to parse JSON from Gemini response"
MsgSyntax == "SyntaxError: Unexpected token in JSON"
MsgSave == "save failed"
MsgInsert == "puzzle insert failed"

Positions(t, c) == {i \in 1..Len(t) : t[i] = c}
Min(S) == CHOOSE i \in S : \A j \in S : i <= j
Max(S) == CHOOSE i \in S : \A j \in S : i >= j

\* text.match(/\{[\s\S]*\}/): from the first "{" to the last "}" (the star is
\* greedy); no match when no "}" follows a "{".
HasMatch(t) ==
    /\ Positions(t, "{") # {}
    /\ Positions(t, "}") # {}
    /\ Min(Positions(t, "{")) < Max(Positions(t, "}"))

JsonMatch(t) == SubSeq(t, Min(Positions(t, "{")), Max(Positions(t, "}")))

\* Nesting depth after the first n tokens of s.
RECURSIVE Depth(_, _)
Depth(s, n) ==
    IF n = 0 THEN 0
    ELSE Depth(s, n - 1) + (IF s[n] = "{" THEN 1 ELSE IF s[n] = "}" THEN -1 ELSE 0)

\* JSON.parse accepts exactly one object: no prose, and the opening brace is
\* closed by the last token and not before.
JsonParses(s) ==
    /\ Len(s) >= 2
    /\ s[1] = "{"
    /\ \A i \in 1..Len(s) : s[i] # "x"
    /\ \A n \in 1..(Len(s) - 1) : Depth(s, n) >= 1
    /\ Depth(s, Len(s)) = 0

\* geminiResult.puzzles || [] : the entries of the top-level puzzles array.
PuzzlesOf(s) == Cardinality({i \in 1..Len(s) : s[i] = "p" /\ Depth(s, i) = 1})

\* The rest of the payload (resultWithoutPuzzles).
ResultWithoutPuzzles(s) ==
    [summary |-> IF \E i \in 1..Len(s) : s[i] = "s" THEN "summary" ELSE ""]

\* What analyzeGame does with the text generateText returned: the error it
\* throws, or "" when it returns.
AnalyzeError(t) ==
    IF ~HasMatch(t) THEN MsgNoJson
    ELSE IF ~JsonParses(JsonMatch(t)) THEN MsgSyntax
    ELSE ""

\* ------------------------------------------------------------ mongoose save
\* A save that replaces the stored document by the modified paths alone.
PersistedAsReplacement(stored, d, paths) ==
    [f \in DOMAIN stored |-> IF f \in paths THEN d[f] ELSE NewAnalysis("", "")[f]]

\* doc.save() sends the modified paths of the document and nothing else.
Persisted(stored, d, paths) ==
    [f \in DOMAIN stored |-> IF f \in paths THEN d[f] ELSE stored[f]]

\* ------------------------------------------------ worker: processAnalysis
\* The catch block recording the status and dropping the message.
CatchBlockNoMessage(d, msg) == [d EXCEPT !.status = FAILED]

\* lines 112-116: the catch block, up to its save.
CatchBlock(d, msg) == [d EXCEPT !.status = FAILED, !.error = msg]

\* The result saved without the references savePuzzles returned.
WithResultsNoReferences(d, partial, ids) ==
    [d EXCEPT !.result = [summary |-> partial.summary, puzzles |-> <<>>],
              !.status = COMPLETED,
              !.completed_at = SomeDate]

\* lines 95-104: the result with puzzle references, up to the save.
WithResults(d, partial, ids) ==
    [d EXCEPT !.result = [summary |-> partial.summary, puzzles |-> ids],
              !.status = COMPLETED,
              !.completed_at = SomeDate]

\* line 61: analysis.user_id?.toString() || "guest"
UserId(d) == IF d.user_id = "" THEN Guest ELSE d.user_id

\* The test of line 64 without its guest check.
ShouldSavePuzzlesAnyUser(n, userId) == n > 0

\* The test of line 64 without its length check.
ShouldSavePuzzlesSignedIn(n, userId) == userId # Guest

\* line 64: whether savePuzzles is called.
ShouldSavePuzzles(n, userId) == n > 0 /\ userId # Guest

\* The guard of line 20 letting through a document that is being processed.
MayProcessUnlessTerminal(d) == d.status \in {PENDING, PROCESSING}

\* line 20: the guard that lets an invocation process the document.
MayProcess(d) == d.status = PENDING

Step(w, label) == trail' = [trail EXCEPT ![w] = Append(@, label)]

Finish(w, how) ==
    /\ pc' = [pc EXCEPT ![w] = "done"]
    /\ outcome' = [outcome EXCEPT ![w] = how]

\* ------------------------------------------- puzzle.service: savePuzzles
\* One Puzzle document per candidate, each with a fresh puzzle_id, in the
\* order of the candidates.
NewPuzzleIds(n, first) == [i \in 1..n |-> first + i - 1]

SavedPuzzles(n, userId, analysisId, first) ==
    {[puzzle_id |-> first + i - 1, user_id |-> userId, analysis_id |-> analysisId] :
        i \in 1..n}

\* A batch that fails after its first document was inserted, and keeps it.
PuzzlesAfterPartialFailure(stored) ==
    stored \cup {[puzzle_id |-> 0, user_id |-> "u1", analysis_id |-> "a1"]}

\* A batch that fails is not kept in part: the collection is as it was.
PuzzlesAfterFailure(stored) == stored

\* line 74 taking the first document's id for every reference.
PuzzleIdsOfFirst(ids) == [i \in DOMAIN ids |-> ids[1]]

\* line 74: savedPuzzles.map((p) => p.puzzle_id)
PuzzleIdsOf(ids) == ids

\* ------------------------------------------------------------- the actions
\* findOne resolving to null raised to the caller instead of logged.
NotFoundRaised(w, id) ==
    /\ pc[w] = "idle"
    /\ id \notin DOMAIN analyses
    /\ arg' = [arg EXCEPT ![w] = id]
    /\ Finish(w, "threw")
    /\ Step(w, "notFound")
    /\ UNCHANGED <<owned, reply, analyses, puzzles, nextPuzzleId, apiKey, faults, genCalls, doc,
                   modified, text, puzzleObjects, puzzleIds>>

\* lines 13-18: findOne resolves to null; logged, and the call returns.
NotFound(w, id) ==
    /\ pc[w] = "idle"
    /\ id \notin DOMAIN analyses
    /\ arg' = [arg EXCEPT ![w] = id]
    /\ Finish(w, "returned")
    /\ Step(w, "notFound")
    /\ UNCHANGED <<owned, reply, analyses, puzzles, nextPuzzleId, apiKey, faults, genCalls, doc,
                   modified, text, puzzleObjects, puzzleIds>>

\* lines 13-23: the document is found and is not PENDING; the call returns.
Skip(w, id) ==
    /\ pc[w] = "idle"
    /\ id \in DOMAIN analyses
    /\ ~MayProcess(analyses[id])
    /\ arg' = [arg EXCEPT ![w] = id]
    /\ doc' = [doc EXCEPT ![w] = analyses[id]]
    /\ Finish(w, "returned")
    /\ Step(w, "skip")
    /\ UNCHANGED <<owned, reply, analyses, puzzles, nextPuzzleId, apiKey, faults, genCalls,
                   modified, text, puzzleObjects, puzzleIds>>

\* lines 13-27: the document is found PENDING; status is set to PROCESSING in
\* memory and the save is issued.
Begin(w, id) ==
    /\ pc[w] = "idle"
    /\ id \in DOMAIN analyses
    /\ MayProcess(analyses[id])
    /\ arg' = [arg EXCEPT ![w] = id]
    /\ doc' = [doc EXCEPT ![w] = [analyses[id] EXCEPT !.status = PROCESSING]]
    /\ modified' = [modified EXCEPT ![w] = {"status"}]
    /\ pc' = [pc EXCEPT ![w] = "saveProcessing"]
    /\ Step(w, "begin")
    /\ UNCHANGED <<owned, reply, analyses, puzzles, nextPuzzleId, apiKey, faults, genCalls,
                   text, puzzleObjects, puzzleIds, outcome>>

\* The catch block without its save: the invocation ends there.
CaughtUnsaved(w, msg) ==
    /\ doc' = [doc EXCEPT ![w] = CatchBlock(@, msg)]
    /\ modified' = [modified EXCEPT ![w] = @ \cup {"status", "error"}]
    /\ pc' = [pc EXCEPT ![w] = "done"]

\* An awaited call of the try block threw msg: lines 112-116, up to the save.
Caught(w, msg) ==
    /\ doc' = [doc EXCEPT ![w] = CatchBlock(@, msg)]
    /\ modified' = [modified EXCEPT ![w] = @ \cup {"status", "error"}]
    /\ pc' = [pc EXCEPT ![w] = "saveFailed"]

\* The write of doc[w]'s modified paths reaches the store.
Written(w) ==
    /\ analyses' = [analyses EXCEPT ![arg[w]] = Persisted(@, doc[w], modified[w])]
    /\ modified' = [modified EXCEPT ![w] = {}]

\* line 28: the save of PROCESSING succeeds.
SaveProcessingOk(w) ==
    /\ pc[w] = "saveProcessing"
    /\ Written(w)
    /\ pc' = [pc EXCEPT ![w] = "analyzeGame"]
    /\ Step(w, "saveProcessing:ok")
    /\ UNCHANGED <<owned, reply, puzzles, nextPuzzleId, apiKey, faults, genCalls, arg, doc, text,
                   puzzleObjects, puzzleIds, outcome>>

\* The save of PROCESSING not awaited: its rejection is lost and the call of
\* analyzeGame follows.
SaveProcessingErrUnawaited(w) ==
    /\ pc[w] = "saveProcessing"
    /\ faults < MaxStoreFaults
    /\ faults' = faults + 1
    /\ pc' = [pc EXCEPT ![w] = "analyzeGame"]
    /\ Step(w, "saveProcessing:err")
    /\ UNCHANGED <<owned, reply, analyses, puzzles, nextPuzzleId, apiKey, genCalls, arg, doc,
                   modified, text, puzzleObjects, puzzleIds, outcome>>

\* line 28: the save of PROCESSING rejects; the catch block runs.
SaveProcessingErr(w) ==
    /\ pc[w] = "saveProcessing"
    /\ faults < MaxStoreFaults
    /\ faults' = faults + 1
    /\ Caught(w, MsgSave)
    /\ Step(w, "saveProcessing:err")
    /\ UNCHANGED <<owned, reply, analyses, puzzles, nextPuzzleId, apiKey, genCalls, arg, text,
                   puzzleObjects, puzzleIds, outcome>>

\* lines 31-42 with analyzeGame lines 162-170: no API key, nothing is sent.
AnalyzeGameNoKey(w) ==
    /\ pc[w] = "analyzeGame"
    /\ ~apiKey
    /\ Caught(w, MsgNoApiKey)
    /\ Step(w, "analyzeGame:noKey")
    /\ UNCHANGED <<owned, reply, analyses, puzzles, nextPuzzleId, apiKey, faults, genCalls, arg,
                   text, puzzleObjects, puzzleIds, outcome>>

\* generateText rejecting and being called again.
AnalyzeGameServiceErrorRetried(w) ==
    /\ pc[w] = "analyzeGame"
    /\ apiKey
    /\ genCalls' = [genCalls EXCEPT ![arg[w]] = @ + 1]
    /\ Step(w, "analyzeGame:serviceError")
    /\ UNCHANGED <<owned, reply, analyses, puzzles, nextPuzzleId, apiKey, faults, pc, arg, doc,
                   modified, text, puzzleObjects, puzzleIds, outcome>>

\* analyzeGame lines 176-179: generateText is called and rejects.
AnalyzeGameServiceError(w) ==
    /\ pc[w] = "analyzeGame"
    /\ apiKey
    /\ genCalls' = [genCalls EXCEPT ![arg[w]] = @ + 1]
    /\ Caught(w, MsgService)
    /\ Step(w, "analyzeGame:serviceError")
    /\ UNCHANGED <<owned, reply, analyses, puzzles, nextPuzzleId, apiKey, faults, arg, text,
                   puzzleObjects, puzzleIds, outcome>>

\* analyzeGame lines 176-187: generateText returns t, from which no payload
\* can be read.
AnalyzeGameParseError(w, t) ==
    /\ pc[w] = "analyzeGame"
    /\ apiKey
    /\ AnalyzeError(t) # ""
    /\ genCalls' = [genCalls EXCEPT ![arg[w]] = @ + 1]
    /\ text' = [text EXCEPT ![w] = t]
    /\ Caught(w, AnalyzeError(t))
    /\ Step(w, "analyzeGame:parseError")
    /\ UNCHANGED <<owned, reply, analyses, puzzles, nextPuzzleId, apiKey, faults, arg,
                   puzzleObjects, puzzleIds, outcome>>

\* analyzeGame lines 176-207 and processAnalysis lines 44-64: generateText
\* returns t and the payload is read. Either savePuzzles is called, or
\* (lines 89-104) the result is set with no puzzle references and saved.
AnalyzeGameOk(w, t) ==
    /\ pc[w] = "analyzeGame"
    /\ apiKey
    /\ AnalyzeError(t) = ""
    /\ genCalls' = [genCalls EXCEPT ![arg[w]] = @ + 1]
    /\ text' = [text EXCEPT ![w] = t]
    /\ puzzleObjects' = [puzzleObjects EXCEPT ![w] = PuzzlesOf(JsonMatch(t))]
    /\ IF ShouldSavePuzzles(PuzzlesOf(JsonMatch(t)), UserId(doc[w]))
       THEN /\ pc' = [pc EXCEPT ![w] = "savePuzzles"]
            /\ UNCHANGED <<owned, reply, doc, modified>>
       ELSE /\ pc' = [pc EXCEPT ![w] = "saveCompleted"]
            /\ doc' = [doc EXCEPT ![w] =
                          WithResults(@, ResultWithoutPuzzles(JsonMatch(t)), <<>>)]
            /\ modified' = [modified EXCEPT ![w] =
                               @ \cup {"result", "status", "completed_at"}]
    /\ Step(w, "analyzeGame:ok")
    /\ UNCHANGED <<owned, reply, analyses, puzzles, nextPuzzleId, apiKey, faults, arg, puzzleIds,
                   outcome>>

\* lines 69-74 and 95-104: savePuzzles resolves; the ids are kept and the
\* result is set with them.
SavePuzzlesOk(w) ==
    /\ pc[w] = "savePuzzles"
    /\ puzzles' = puzzles \cup
          SavedPuzzles(puzzleObjects[w], UserId(doc[w]), arg[w], nextPuzzleId)
    /\ nextPuzzleId' = nextPuzzleId + puzzleObjects[w]
    /\ puzzleIds' = [puzzleIds EXCEPT ![w] =
                        PuzzleIdsOf(NewPuzzleIds(puzzleObjects[w], nextPuzzleId))]
    /\ doc' = [doc EXCEPT ![w] =
                  WithResults(@, ResultWithoutPuzzles(JsonMatch(text[w])),
                              PuzzleIdsOf(NewPuzzleIds(puzzleObjects[w], nextPuzzleId)))]
    /\ modified' = [modified EXCEPT ![w] = @ \cup {"result", "status", "completed_at"}]
    /\ pc' = [pc EXCEPT ![w] = "saveCompleted"]
    /\ Step(w, "savePuzzles:ok")
    /\ UNCHANGED <<owned, reply, analyses, apiKey, faults, genCalls, arg, text, puzzleObjects,
                   outcome>>

\* savePuzzles rejecting with no inner try/catch: the outer catch block runs.
SavePuzzlesErrUncaught(w) ==
    /\ pc[w] = "savePuzzles"
    /\ faults < MaxStoreFaults
    /\ faults' = faults + 1
    /\ Caught(w, MsgInsert)
    /\ Step(w, "savePuzzles:err")
    /\ UNCHANGED <<owned, reply, analyses, puzzles, nextPuzzleId, apiKey, genCalls, arg, text,
                   puzzleObjects, puzzleIds, outcome>>

\* lines 69-104: savePuzzles rejects; the inner catch logs it, puzzleIds stays
\* empty and the result is set without references.
SavePuzzlesErr(w) ==
    /\ pc[w] = "savePuzzles"
    /\ faults < MaxStoreFaults
    /\ faults' = faults + 1
    /\ doc' = [doc EXCEPT ![w] =
                  WithResults(@, ResultWithoutPuzzles(JsonMatch(text[w])), puzzleIds[w])]
    /\ modified' = [modified EXCEPT ![w] = @ \cup {"result", "status", "completed_at"}]
    /\ pc' = [pc EXCEPT ![w] = "saveCompleted"]
    /\ puzzles' = PuzzlesAfterFailure(puzzles)
    /\ Step(w, "savePuzzles:err")
    /\ UNCHANGED <<owned, reply, analyses, nextPuzzleId, apiKey, genCalls, arg, text,
                   puzzleObjects, puzzleIds, outcome>>

\* lines 105-111: the save of COMPLETED succeeds and the call returns.
SaveCompletedOk(w) ==
    /\ pc[w] = "saveCompleted"
    /\ Written(w)
    /\ Finish(w, "returned")
    /\ Step(w, "saveCompleted:ok")
    /\ UNCHANGED <<owned, reply, puzzles, nextPuzzleId, apiKey, faults, genCalls, arg, doc, text,
                   puzzleObjects, puzzleIds>>

\* line 105: the save of COMPLETED rejects; the catch block runs on the same
\* document.
SaveCompletedErr(w) ==
    /\ pc[w] = "saveCompleted"
    /\ faults < MaxStoreFaults
    /\ faults' = faults + 1
    /\ Caught(w, MsgSave)
    /\ Step(w, "saveCompleted:err")
    /\ UNCHANGED <<owned, reply, analyses, puzzles, nextPuzzleId, apiKey, genCalls, arg, text,
                   puzzleObjects, puzzleIds, outcome>>

\* line 117: the save of FAILED succeeds and the call returns.
SaveFailedOk(w) ==
    /\ pc[w] = "saveFailed"
    /\ Written(w)
    /\ Finish(w, "returned")
    /\ Step(w, "saveFailed:ok")
    /\ UNCHANGED <<owned, reply, puzzles, nextPuzzleId, apiKey, faults, genCalls, arg, doc, text,
                   puzzleObjects, puzzleIds>>

\* line 117: the save of FAILED rejects inside the catch block; the rejection
\* leaves processAnalysis.
SaveFailedErr(w) ==
    /\ pc[w] = "saveFailed"
    /\ faults < MaxStoreFaults
    /\ faults' = faults + 1
    /\ Finish(w, "threw")
    /\ Step(w, "saveFailed:err")
    /\ UNCHANGED <<owned, reply, analyses, puzzles, nextPuzzleId, apiKey, genCalls, arg, doc,
                   modified, text, puzzleObjects, puzzleIds>>

Next ==
    \E w \in Workers :
        \/ \E id \in RequestIds : NotFound(w, id)
        \/ \E id \in RequestIds : Skip(w, id)
        \/ \E id \in RequestIds : Begin(w, id)
        \/ SaveProcessingOk(w)
        \/ SaveProcessingErr(w)
        \/ AnalyzeGameNoKey(w)
        \/ AnalyzeGameServiceError(w)
        \/ \E t \in GeminiTexts : AnalyzeGameParseError(w, t)
        \/ \E t \in GeminiTexts : AnalyzeGameOk(w, t)
        \/ SavePuzzlesOk(w)
        \/ SavePuzzlesErr(w)
        \/ SaveCompletedOk(w)
        \/ SaveCompletedErr(w)
        \/ SaveFailedOk(w)
        \/ SaveFailedErr(w)

Spec == Init /\ [][Next]_vars

\* ------------------------------------- calls that never settle, and crashes
\* Responses the reasoning service gives where every invocation is followed
\* to its end: prose, a payload without puzzles, a payload with two.
LiveTexts == { <<"x">>, <<"{", "s", "}">>, <<"{", "s", "p", "p", "}">> }

\* Positions at which an invocation is inside processAnalysis.
InFlight == {"saveProcessing", "analyzeGame", "savePuzzles", "saveCompleted", "saveFailed"}

\* Positions at which an invocation awaits a promise that never settles.
Unsettled == {"generateText", "awaitSavePuzzles"}

\* analyzeGame lines 176-179: generateText is called with no abortSignal and
\* the service never answers; the await does not return.
AnalyzeGameNoResponse(w) ==
    /\ pc[w] = "analyzeGame"
    /\ apiKey
    /\ genCalls' = [genCalls EXCEPT ![arg[w]] = @ + 1]
    /\ pc' = [pc EXCEPT ![w] = "generateText"]
    /\ Step(w, "analyzeGame:noResponse")
    /\ UNCHANGED <<owned, reply, analyses, puzzles, nextPuzzleId, apiKey, faults, arg, doc,
                   modified, text, puzzleObjects, puzzleIds, outcome>>

\* lines 69-73: savePuzzles is awaited with no time limit and never settles.
SavePuzzlesNoResponse(w) ==
    /\ pc[w] = "savePuzzles"
    /\ pc' = [pc EXCEPT ![w] = "awaitSavePuzzles"]
    /\ Step(w, "savePuzzles:noResponse")
    /\ UNCHANGED <<owned, reply, analyses, puzzles, nextPuzzleId, apiKey, faults, genCalls, arg,
                   doc, modified, text, puzzleObjects, puzzleIds, outcome>>

\* The worker process ends while the invocation is between two awaits.
Crash(w) ==
    /\ pc[w] \in InFlight
    /\ pc' = [pc EXCEPT ![w] = "crashed"]
    /\ Step(w, "crash")
    /\ UNCHANGED <<owned, reply, analyses, puzzles, nextPuzzleId, apiKey, faults, genCalls, arg,
                   doc, modified, text, puzzleObjects, puzzleIds, outcome>>

\* A step of invocation w after an awaited call settled, the store accepting
\* every write.
Responds(w) ==
    \/ SaveProcessingOk(w)
    \/ AnalyzeGameNoKey(w)
    \/ AnalyzeGameServiceError(w)
    \/ \E t \in LiveTexts : AnalyzeGameParseError(w, t)
    \/ \E t \in LiveTexts : AnalyzeGameOk(w, t)
    \/ SavePuzzlesOk(w)
    \/ SaveCompletedOk(w)
    \/ SaveFailedOk(w)

LiveNext ==
    \E w \in Workers :
        \/ \E id \in RequestIds : NotFound(w, id)
        \/ \E id \in RequestIds : Skip(w, id)
        \/ \E id \in RequestIds : Begin(w, id)
        \/ Responds(w)
        \/ AnalyzeGameNoResponse(w)
        \/ SavePuzzlesNoResponse(w)
        \/ Crash(w)

\* A settled promise resumes the invocation that awaits it.
SpecLive == Init /\ [][LiveNext]_vars /\ \A w \in Workers : WF_vars(Responds(w))

\* ------------------------------------------------------ dashboard.service
\* The documents of one user are kept newest first (sort created_at: -1), as
\* runs: a run stands for n documents created one after the other that agree
\* on every field the dashboard reads.
MaxGames == 3
MaxOpeningJobs == 6

\* .limit(5) of the recent analyses, .limit(1000) of the summary's completed
\* analyses, .slice(0, 5) of the opening ranking.
RecentLimit == 5
SummaryFetchLimit == 1000
TopOpenings == 5

\* metadata.result: the PGN results, "*" (the schema default) and "".
Results == {"1-0", "0-1", "1/2-1/2", "*", ""}
Colors == {"white", "black"}
\* player_color is optional.
NoColor == ""

Run(n, status, result, color, opening, eco) ==
    [n |-> n, status |-> status, result |-> result, player_color |-> color,
     opening |-> opening, eco |-> eco]

\* Documents the dashboard is asked about: single completed games of every
\* result and colour, games not completed, and two long runs of completed
\* games.
GameRuns ==
    {Run(1, COMPLETED, r, c, <<"Sicilian">>, <<"B20">>) : r \in Results, c \in Colors \cup {NoColor}}
    \cup {Run(1, PENDING, "1-0", "white", <<"Sicilian">>, <<"B20">>),
          Run(1, FAILED, "1/2-1/2", "black", <<"Sicilian">>, <<"B20">>)}
    \cup {Run(SummaryFetchLimit, COMPLETED, r, "white", <<"Sicilian">>, <<"B20">>) :
             r \in {"1-0", "0-1"}}

\* Texts are sequences of pieces that hold no "|", and "|" itself. Openings
\* of the games in the opening ranking: the first has a "|" in its name, the
\* fourth has no opening and no eco recorded.
OpeningPairs ==
    << << <<"Old", "|", "Indian">>, <<"A53">> >>,
       << <<"Sicilian">>, <<"B20">> >>,
       << <<"Sicilian">>, <<"B21">> >>,
       << <<>>, <<>> >>,
       << <<"Caro-Kann">>, <<>> >>,
       << <<"Italian">>, <<"C50">> >>,
       << <<"Ruy Lopez">>, <<"C60">> >> >>

\* An opening and eco that are cut at the other "|" of the first pair's key.
OtherCut == << <<"Old">>, <<"Indian", "|", "A53">> >>

\* The openings other than the first and OtherCut are interchangeable, so a
\* new game has an opening already seen or the next one of OpeningPairs (a
\* game not completed the next one), or it has OtherCut.
OpeningRuns(runs) ==
    LET seen == Cardinality({<<runs[i].opening, runs[i].eco>> : i \in DOMAIN runs}
                            \ {OtherCut})
        next == IF seen < Len(OpeningPairs) THEN seen + 1 ELSE seen
    IN {Run(1, COMPLETED, "1-0", "white", OpeningPairs[k][1], OpeningPairs[k][2]) :
           k \in 1..next}
       \cup {Run(1, PENDING, "1-0", "white", OpeningPairs[next][1], OpeningPairs[next][2])}
       \cup (IF seen > 0 THEN {Run(1, COMPLETED, "1-0", "white", OtherCut[1], OtherCut[2])}
             ELSE {})

\* Number of documents in the runs of index set S.
RECURSIVE Docs(_, _)
Docs(runs, S) ==
    IF S = {} THEN 0
    ELSE LET i == CHOOSE i \in S : TRUE IN runs[i].n + Docs(runs, S \ {i})

\* find(...).limit(k): the first k documents.
RECURSIVE Limit(_, _)
Limit(runs, k) ==
    IF runs = <<>> \/ k = 0 THEN <<>>
    ELSE IF Head(runs).n <= k THEN <<Head(runs)>> \o Limit(Tail(runs), k - Head(runs).n)
    ELSE <<[Head(runs) EXCEPT !.n = k]>>

\* find({status: COMPLETED}): the completed documents, in order.
Completed(runs) == SelectSeq(runs, LAMBDA r : r.status = COMPLETED)

\* The runs written out document by document.
RECURSIVE Each(_)
Each(runs) ==
    IF runs = <<>> THEN <<>>
    ELSE [i \in 1..Head(runs).n |-> [Head(runs) EXCEPT !.n = 1]] \o Each(Tail(runs))

\* Math.round of the quotient a / b (b > 0), times 100.
RoundedPercent(a, b) == (200 * a + b) \div (2 * b)

\* lines 31-34, 96-99, 130-133: the subject's colour won.
IsWin(r) ==
    \/ r.result = "1-0" /\ r.player_color = "white"
    \/ r.result = "0-1" /\ r.player_color = "black"

\* line 19: the filter of calculateWinRate.
CountsForWinRate(r) == r.status = COMPLETED /\ r.result # "*"

\* lines 17-40: calculateWinRate; the empty set is undefined.
calculateWinRate(runs) ==
    LET counted == {i \in DOMAIN runs : CountsForWinRate(runs[i])}
        wins == Docs(runs, {i \in counted : IsWin(runs[i])})
    IN IF Docs(runs, counted) = 0 THEN {}
       ELSE {RoundedPercent(wins, Docs(runs, counted))}

\* lines 45-62: getRecentAnalyses.
getRecentAnalyses(runs, limit) ==
    LET docs == Each(Limit(runs, limit))
    IN [i \in 1..Len(docs) |->
           [status |-> docs[i].status,
            player_color |-> IF docs[i].player_color = NoColor THEN "white"
                             ELSE docs[i].player_color,
            result |-> docs[i].result]]

\* lines 73-74: metadata.opening || "Unknown" and metadata.eco || "".
OpeningOf(r) == IF r.opening = <<>> THEN <<"Unknown">> ELSE r.opening

\* line 75: the key of the opening map, `${opening}|${eco}`.
OpeningKey(r) == OpeningOf(r) \o <<"|">> \o r.eco

\* The branch of lines 94-103 leaving out a game without a decisive or drawn
\* result.
TallyOfRecorded(r) ==
    IF r.result = "1/2-1/2" THEN "draws"
    ELSE IF IsWin(r) THEN "wins"
    ELSE IF r.result \in {"1-0", "0-1"} THEN "losses"
    ELSE "none"

\* lines 94-103 and 128-137: the counter a completed game adds to.
Tally(r) ==
    IF r.result = "1/2-1/2" THEN "draws"
    ELSE IF IsWin(r) THEN "wins"
    ELSE "losses"

\* lines 70-104: the entry of the opening map created at run i.
OpeningStat(runs, i) ==
    LET same == {j \in DOMAIN runs :
                    runs[j].status = COMPLETED /\ OpeningKey(runs[j]) = OpeningKey(runs[i])}
    IN [opening |-> OpeningOf(runs[i]),
        eco |-> runs[i].eco,
        count |-> Docs(runs, same),
        wins |-> Docs(runs, {j \in same : Tally(runs[j]) = "wins"}),
        losses |-> Docs(runs, {j \in same : Tally(runs[j]) = "losses"}),
        draws |-> Docs(runs, {j \in same : Tally(runs[j]) = "draws"})]

\* The runs at which the opening map gets a new key.
FirstOfOpening(runs) ==
    {i \in DOMAIN runs :
        /\ runs[i].status = COMPLETED
        /\ \A j \in 1..(i - 1) :
              ~(runs[j].status = COMPLETED /\ OpeningKey(runs[j]) = OpeningKey(runs[i]))}

\* line 107: sort((a, b) => b.count - a.count), which keeps the map's order
\* among equal counts.
ComesBefore(stat, i, j) ==
    \/ stat[i].count > stat[j].count
    \/ stat[i].count = stat[j].count /\ i < j

\* line 108: slice(0, 5).
KeptOpenings(n) == IF n < TopOpenings THEN n ELSE TopOpenings

\* lines 67-109: getMostPlayedOpenings.
getMostPlayedOpenings(runs) ==
    LET first == FirstOfOpening(runs)
        stat == [i \in first |-> OpeningStat(runs, i)]
        place == [i \in first |-> 1 + Cardinality({j \in first : ComesBefore(stat, j, i)})]
    IN [k \in 1..KeptOpenings(Cardinality(first)) |->
           stat[CHOOSE i \in first : place[i] = k]]

\* lines 114-141: getPerformanceByColor.
getPerformanceByColor(runs) ==
    [c \in Colors |->
        [t \in {"wins", "losses", "draws"} |->
            Docs(runs, {i \in DOMAIN runs :
                           /\ runs[i].status = COMPLETED
                           /\ runs[i].player_color = c
                           /\ Tally(runs[i]) = t})]]

\* lines 151-172 and 180-189: the stats object, from the documents of the
\* user and the completed documents fetched for the win rate.
StatsObject(runs, completedAnalyses) ==
    [total_analyses |-> Docs(runs, DOMAIN runs),
     completed |-> Docs(runs, {i \in DOMAIN runs : runs[i].status = COMPLETED}),
     pending |-> Docs(runs, {i \in DOMAIN runs : runs[i].status = PENDING}),
     processing |-> Docs(runs, {i \in DOMAIN runs : runs[i].status = PROCESSING}),
     failed |-> Docs(runs, {i \in DOMAIN runs : runs[i].status = FAILED}),
     total_games |-> Docs(runs, DOMAIN runs),
     recent_analyses |-> getRecentAnalyses(Limit(runs, RecentLimit), RecentLimit),
     win_rate |-> calculateWinRate(completedAnalyses)]

\* lines 146-191: getDashboardStats.
getDashboardStats(runs) == StatsObject(runs, Completed(runs))

\* lines 220-225: the completed documents the summary fetches.
SummaryCompleted(runs) == Limit(Completed(runs), SummaryFetchLimit)

\* lines 202-267: getDashboardSummary; an absent field is the empty sequence
\* or the empty set.
getDashboardSummary(runs) ==
    LET completedAnalyses == SummaryCompleted(runs)
        performance == getPerformanceByColor(completedAnalyses)
        games == Docs(completedAnalyses,
                      {i \in DOMAIN completedAnalyses :
                          completedAnalyses[i].player_color \in Colors})
    IN [stats |-> StatsObject(runs, completedAnalyses),
        most_played_openings |-> getMostPlayedOpenings(completedAnalyses),
        performance_by_color |-> IF games > 0 THEN {performance} ELSE {}]

workerVars == <<analyses, puzzles, nextPuzzleId, apiKey, faults, genCalls, pc, arg,
                doc, modified, text, puzzleObjects, puzzleIds, trail, outcome>>

\* A document of the user comes to exist (or a run of them), newer than the
\* others.
AddGame(r) ==
    /\ Len(owned) < MaxGames
    /\ owned' = <<r>> \o owned
    /\ reply' = NoReply
    /\ UNCHANGED workerVars

AddOpeningGame(r) ==
    /\ Len(owned) < MaxOpeningJobs
    /\ owned' = <<r>> \o owned
    /\ reply' = NoReply
    /\ UNCHANGED workerVars

\* GET /dashboard/stats
GetDashboardStats ==
    /\ reply' = [kind |-> "stats", stats |-> getDashboardStats(owned)]
    /\ UNCHANGED <<owned, workerVars>>

\* GET /dashboard/summary
GetDashboardSummary ==
    /\ reply' = [kind |-> "summary", summary |-> getDashboardSummary(owned)]
    /\ UNCHANGED <<owned, workerVars>>

DashInit ==
    /\ WorkerInit
    /\ apiKey = TRUE
    /\ owned = <<>>
    /\ reply = NoReply

\* The dashboard over games of every result and colour.
DashNext ==
    \/ \E r \in GameRuns : AddGame(r)
    \/ GetDashboardStats
    \/ GetDashboardSummary

SpecDash == DashInit /\ [][DashNext]_vars

\* The dashboard over games of many openings.
OpeningsNext ==
    \/ \E r \in OpeningRuns(owned) : AddOpeningGame(r)
    \/ GetDashboardSummary

SpecOpenings == DashInit /\ [][OpeningsNext]_vars

\* ------------------------------------------------------ reading the history
\* The invocation passed the PENDING guard and went on to process its document.
Claimed(w) == trail[w] # <<>> /\ trail[w][1] = "begin"

\* No other invocation processed the document w was called with.
Alone(w) == \A v \in Workers \ {w} : ~(Claimed(v) /\ arg[v] = arg[w])

Took(w, label) == \E i \in DOMAIN trail[w] : trail[w][i] = label

PuzzlesFor(id) == {p \in puzzles : p.analysis_id = id}

Terminal == {COMPLETED, FAILED}

\* ------------------------------------------------------------------ claims
\* C1: the stored status of an analysis changes only along
\* PENDING -> PROCESSING -> COMPLETED or PENDING -> PROCESSING -> FAILED,
\* whatever the interleaving of invocations and whichever saves fail.
AllowedTransitions ==
    {<<PENDING, PROCESSING>>, <<PROCESSING, COMPLETED>>, <<PROCESSING, FAILED>>}

C1_StatusMonotonic ==
    [][\A id \in StoredIds :
          analyses'[id].status # analyses[id].status =>
              <<analyses[id].status, analyses'[id].status>> \in AllowedTransitions]_vars

\* C2: a stored analysis that is COMPLETED has a result and no error, and one
\* that is FAILED has an error and no result.
C2_ResultXorError ==
    \A id \in StoredIds :
        /\ analyses[id].status = COMPLETED =>
              analyses[id].result # Unset /\ analyses[id].error = NoError
        /\ analyses[id].status = FAILED =>
              analyses[id].result = Unset /\ analyses[id].error # NoError

\* C3: a stored analysis that is PENDING or PROCESSING has neither a result
\* nor an error.
C3_EmptyBeforeTerminal ==
    \A id \in StoredIds :
        analyses[id].status \in {PENDING, PROCESSING} =>
            analyses[id].result = Unset /\ analyses[id].error = NoError

\* C4: of the invocations on one analysis, at most one calls the reasoning
\* service and commits a terminal state, and the service is called at most
\* once for that analysis.
Called(w) ==
    \/ Took(w, "analyzeGame:serviceError")
    \/ Took(w, "analyzeGame:parseError")
    \/ Took(w, "analyzeGame:ok")

Committed(w) == Took(w, "saveCompleted:ok") \/ Took(w, "saveFailed:ok")

C4_SingleExternalCall ==
    \A id \in StoredIds :
        /\ genCalls[id] <= 1
        /\ Cardinality({w \in Workers : arg[w] = id /\ Called(w) /\ Committed(w)}) <= 1

\* C5: an invocation that finds its analysis in a status other than PENDING
\* ends at once, returning normally, and the Analysis collection, the Puzzle
\* collection and the count of reasoning calls are as they were.
C5_NonPendingIsNoOp ==
    [][\A w \in Workers :
          (/\ pc[w] = "idle"
           /\ pc'[w] # "idle"
           /\ arg'[w] \in StoredIds
           /\ analyses[arg'[w]].status # PENDING)
          => (/\ analyses' = analyses
              /\ puzzles' = puzzles
              /\ genCalls' = genCalls
              /\ pc'[w] = "done"
              /\ outcome'[w] = "returned")]_vars

\* C5 witness: an invocation that found its analysis COMPLETED and skipped it.
C5_Witness ==
    \E w \in Workers :
        /\ trail[w] = <<"skip">>
        /\ doc[w].status = COMPLETED
        /\ outcome[w] = "returned"

\* Whether some span of the text is a JSON object.
ContainsJsonObject(t) ==
    \E i \in 1..Len(t) : \E k \in i..Len(t) : JsonParses(SubSeq(t, i, k))

\* The messages of the two ways analyzeGame fails to read a payload.
ParseFailureMessages == {MsgNoJson, MsgSyntax}

Increasing(ids) == \A i \in 1..(Len(ids) - 1) : ids[i] < ids[i + 1]

\* C6: one invocation on an analysis of a signed-in user, the only one to
\* process it, whose saves succeed, for which the reasoning service returned
\* N >= 1 puzzle objects and savePuzzles succeeded: the analysis is COMPLETED,
\* result.puzzles holds the N ids savePuzzles returned, in its order, and the
\* Puzzle documents of that analysis are exactly the N with those ids.
C6_Path ==
    <<"begin", "saveProcessing:ok", "analyzeGame:ok", "savePuzzles:ok", "saveCompleted:ok">>

C6_PuzzlesLinked ==
    \A w \in Workers :
        (trail[w] = C6_Path /\ Alone(w)) =>
            LET a == analyses[arg[w]]
                n == PuzzlesOf(JsonMatch(text[w]))
            IN /\ n >= 1
               /\ a.user_id # Guest
               /\ a.status = COMPLETED
               /\ a.result.puzzles = puzzleIds[w]
               /\ Len(a.result.puzzles) = n
               /\ Increasing(a.result.puzzles)
               /\ Cardinality(PuzzlesFor(arg[w])) = n
               /\ {p.puzzle_id : p \in PuzzlesFor(arg[w])} =
                      {a.result.puzzles[i] : i \in 1..n}

\* C6 witness: the case with two puzzle objects.
C6_Witness ==
    \E w \in Workers :
        /\ trail[w] = C6_Path /\ Alone(w)
        /\ PuzzlesOf(JsonMatch(text[w])) = 2
        /\ Len(analyses[arg[w]].result.puzzles) = 2

\* C7: an analysis of the guest principal never gets a Puzzle document, for
\* itself or for its owner, and its result, once set, references no puzzle.
C7_GuestHasNoPuzzles ==
    \A id \in StoredIds :
        analyses[id].user_id = Guest =>
            /\ PuzzlesFor(id) = {}
            /\ {p \in puzzles : p.user_id = Guest} = {}
            /\ analyses[id].result # Unset => analyses[id].result.puzzles = <<>>

\* C7 witness: a guest analysis COMPLETED after the service returned puzzles.
C7_Witness ==
    \E w \in Workers :
        /\ arg[w] \in StoredIds
        /\ analyses[arg[w]].user_id = Guest
        /\ analyses[arg[w]].status = COMPLETED
        /\ Took(w, "saveCompleted:ok")
        /\ puzzleObjects[w] = 2

\* C8: one invocation, the only one to process its analysis, whose saves
\* succeed, and to which the reasoning service returned a text holding no
\* JSON object: the analysis is FAILED with a parse-failure message as its
\* error, has no result, and no Puzzle document exists for it.
C8_Path == <<"begin", "saveProcessing:ok", "analyzeGame:parseError", "saveFailed:ok">>

C8_NoJsonFails ==
    \A w \in Workers :
        (Claimed(w) /\ Alone(w) /\ pc[w] = "done" /\ outcome[w] = "returned"
            /\ Took(w, "saveProcessing:ok") /\ text[w] # <<>>
            /\ ~ContainsJsonObject(text[w])) =>
            LET a == analyses[arg[w]]
            IN /\ trail[w] = C8_Path
               /\ a.status = FAILED
               /\ a.error \in ParseFailureMessages
               /\ a.result = Unset
               /\ PuzzlesFor(arg[w]) = {}

\* C8 witness: a text with no "{...}" span at all, on the signed-in user's analysis.
C8_Witness ==
    \E w \in Workers :
        /\ trail[w] = C8_Path /\ Alone(w)
        /\ ~HasMatch(text[w])
        /\ analyses[arg[w]].user_id # Guest
        /\ analyses[arg[w]].error = MsgNoJson

\* C9: when savePuzzles fails after a successful analysis, the invocation goes
\* on to commit COMPLETED with the analysis result and no puzzle reference; it
\* commits FAILED only if that commit itself fails. The only invocation to
\* process the analysis then leaves it COMPLETED, with no error.
C9_PuzzleFailureAbsorbed ==
    \A w \in Workers :
        Took(w, "savePuzzles:err") =>
            /\ doc[w].result = [summary |-> ResultWithoutPuzzles(JsonMatch(text[w])).summary,
                                puzzles |-> <<>>]
            /\ trail[w][Len(trail[w])] = "savePuzzles:err" =>
                  pc[w] = "saveCompleted" /\ doc[w].status = COMPLETED
                      /\ doc[w].error = NoError
            /\ Took(w, "saveFailed:ok") => Took(w, "saveCompleted:err")
            /\ (trail[w][Len(trail[w])] = "saveCompleted:ok" /\ Alone(w)) =>
                  /\ analyses[arg[w]].status = COMPLETED
                  /\ analyses[arg[w]].result = doc[w].result
                  /\ analyses[arg[w]].error = NoError

\* C9 witness: COMPLETED committed after savePuzzles failed.
C9_Witness ==
    \E w \in Workers :
        /\ Took(w, "savePuzzles:err") /\ Alone(w)
        /\ trail[w][Len(trail[w])] = "saveCompleted:ok"
        /\ analyses[arg[w]].status = COMPLETED
        /\ analyses[arg[w]].result.puzzles = <<>>

\* C10: an invocation whose save of a terminal state failed does not return
\* normally: the failure reaches its caller.
C10_CommitFailurePropagates ==
    \A w \in Workers :
        (pc[w] = "done" /\ (Took(w, "saveCompleted:err") \/ Took(w, "saveFailed:err"))) =>
            outcome[w] = "threw"

\* C11: an invocation whose id resolves to no document ends at once, returning
\* normally, with the Analysis and Puzzle collections and the count of
\* reasoning calls as they were.
C11_NotFoundIsNoOp ==
    [][\A w \in Workers :
          (pc[w] = "idle" /\ pc'[w] # "idle" /\ arg'[w] \notin StoredIds)
          => (/\ analyses' = analyses
              /\ puzzles' = puzzles
              /\ genCalls' = genCalls
              /\ nextPuzzleId' = nextPuzzleId
              /\ pc'[w] = "done"
              /\ outcome'[w] = "returned")]_vars

\* C11 witness: an invocation on the id that resolves to nothing has returned.
C11_Witness ==
    \E w \in Workers :
        /\ arg[w] \notin StoredIds
        /\ trail[w] = <<"notFound">>
        /\ outcome[w] = "returned"

\* C16: an invocation is at its reasoning call, or has made it, only after its
\* own save of PROCESSING succeeded, and the stored status is then not PENDING.
C16_ProcessingSavedBeforeCall ==
    \A w \in Workers :
        (pc[w] = "analyzeGame" \/ Called(w)) =>
            /\ Len(trail[w]) >= 2
            /\ trail[w][2] = "saveProcessing:ok"
            /\ analyses[arg[w]].status # PENDING

\* C16 witness: the reasoning service has been called and the stored status is
\* still PROCESSING.
C16_Witness ==
    \E w \in Workers :
        /\ Called(w)
        /\ genCalls[arg[w]] = 1
        /\ analyses[arg[w]].status = PROCESSING

\* The message analyzeGame threw to the invocation.
ClientFailed(w) ==
    \/ Took(w, "analyzeGame:noKey")
    \/ Took(w, "analyzeGame:serviceError")
    \/ Took(w, "analyzeGame:parseError")

CapturedMessage(w) ==
    IF Took(w, "analyzeGame:noKey") THEN MsgNoApiKey
    ELSE IF Took(w, "analyzeGame:serviceError") THEN MsgService
    ELSE AnalyzeError(text[w])

\* C17: when analyzeGame fails (no API key, service error, unreadable
\* response), the invocation records FAILED with the thrown message on its
\* document, never calls savePuzzles and never saves COMPLETED. When it is the
\* only invocation to process the analysis, the stored status is never
\* COMPLETED, and once its save succeeds the analysis is stored FAILED with
\* that message.
C17_ClientFailureRecorded ==
    \A w \in Workers :
        ClientFailed(w) =>
            /\ doc[w].status = FAILED
            /\ doc[w].error = CapturedMessage(w)
            /\ ~Took(w, "savePuzzles:ok") /\ ~Took(w, "savePuzzles:err")
            /\ ~Took(w, "saveCompleted:ok") /\ ~Took(w, "saveCompleted:err")
            /\ Alone(w) => analyses[arg[w]].status \in {PROCESSING, FAILED}
            /\ (Alone(w) /\ Took(w, "saveFailed:ok")) =>
                  /\ analyses[arg[w]].status = FAILED
                  /\ analyses[arg[w]].error = CapturedMessage(w)

\* C17 witness: FAILED stored with the message of a rejected generateText call.
C17_Witness ==
    \E w \in Workers :
        /\ Took(w, "analyzeGame:serviceError") /\ Alone(w)
        /\ Took(w, "saveFailed:ok")
        /\ analyses[arg[w]].status = FAILED
        /\ analyses[arg[w]].error = MsgService

\* C18: a stored analysis has completed_at set exactly when it is COMPLETED.
C18_CompletedAtIffCompleted ==
    \A id \in StoredIds :
        (analyses[id].completed_at # NoDate) <=> (analyses[id].status = COMPLETED)

\* C19: once the stored status of an analysis is COMPLETED or FAILED, no
\* invocation writes to that analysis again.
SaveLabels == {"saveProcessing:ok", "saveCompleted:ok", "saveFailed:ok"}

C19_NoWriteAfterTerminal ==
    [][\A id \in StoredIds :
          analyses[id].status \in Terminal =>
              \A w \in Workers :
                  ~(/\ arg[w] = id
                    /\ Len(trail'[w]) > Len(trail[w])
                    /\ trail'[w][Len(trail'[w])] \in SaveLabels)]_vars

\* The first balanced brace span of a text: from its first "{" to the first
\* "}" that closes it.
Closers(t) ==
    {k \in 1..Len(t) :
        /\ Positions(t, "{") # {}
        /\ k > Min(Positions(t, "{"))
        /\ Depth(t, k) = Depth(t, Min(Positions(t, "{")) - 1)}

HasBalancedSpan(t) == Closers(t) # {}

FirstBalancedSpan(t) == SubSeq(t, Min(Positions(t, "{")), Min(Closers(t)))

\* C20: analyzeGame returns exactly when the response text has a balanced
\* brace span whose first such span parses, and the payload it returns is
\* that span.
C20_FirstBalancedSpanParsed ==
    \A w \in Workers :
        text[w] # <<>> =>
            /\ Took(w, "analyzeGame:ok") <=>
                  (HasBalancedSpan(text[w]) /\ JsonParses(FirstBalancedSpan(text[w])))
            /\ Took(w, "analyzeGame:ok") =>
                  puzzleObjects[w] = PuzzlesOf(FirstBalancedSpan(text[w]))

\* -------------------------------------------------------- dashboard claims
Abs(x) == IF x < 0 THEN 0 - x ELSE x

\* A game result that records an outcome: decisive or drawn.
RecordedOutcomes == {"1-0", "0-1", "1/2-1/2"}

\* The completed documents with a recorded outcome, and the wins among them.
WithOutcome(runs) ==
    {i \in DOMAIN runs : runs[i].status = COMPLETED /\ runs[i].result \in RecordedOutcomes}

WinsAmong(runs) == {i \in WithOutcome(runs) : IsWin(runs[i])}

\* C12: the win rate of getDashboardStats is the nearest integer to
\* 100 * wins / D, where D counts the COMPLETED jobs with a recorded outcome
\* (decisive or drawn) and wins those among them the subject's colour won;
\* other jobs change neither number.
C12_WinRateOverRecordedOutcomes ==
    reply.kind = "stats" =>
        LET D == Docs(owned, WithOutcome(owned))
            wins == Docs(owned, WinsAmong(owned))
        IN D > 0 =>
              \E rate \in reply.stats.win_rate : 2 * Abs(100 * wins - rate * D) <= D

\* The (opening, eco) pair a job is listed under, and the pairs of the
\* completed jobs.
PairOf(r) == <<OpeningOf(r), r.eco>>

CompletedPairs(runs) == {PairOf(runs[i]) : i \in {j \in DOMAIN runs : runs[j].status = COMPLETED}}

Occurrences(runs, pair) ==
    Docs(runs, {i \in DOMAIN runs : runs[i].status = COMPLETED /\ PairOf(runs[i]) = pair})

\* C13: the opening ranking has at most 5 entries, one for each distinct
\* (opening, eco) pair of the COMPLETED jobs up to that number, each with the
\* pair's number of occurrences, in non-increasing order of it, and no pair
\* left out occurs more often than the last entry.
C13_TopOpeningsByCount ==
    reply.kind = "summary" =>
        LET out == reply.summary.most_played_openings
            pairs == CompletedPairs(owned)
            listed == {<<out[k].opening, out[k].eco>> : k \in DOMAIN out}
        IN /\ Len(out) <= 5
           /\ Len(out) = (IF Cardinality(pairs) < 5 THEN Cardinality(pairs) ELSE 5)
           /\ Cardinality(listed) = Len(out)
           /\ listed \subseteq pairs
           /\ \A k \in DOMAIN out :
                 out[k].count = Occurrences(owned, <<out[k].opening, out[k].eco>>)
           /\ \A k \in 1..(Len(out) - 1) : out[k].count >= out[k + 1].count
           /\ \A pair \in pairs \ listed :
                 \A k \in DOMAIN out : Occurrences(owned, pair) <= out[k].count

\* The jobs among runs that are COMPLETED with a recorded game result.
WithRecordedResult(runs) ==
    SelectSeq(runs, LAMBDA r : r.status = COMPLETED /\ r.result \in RecordedOutcomes)

\* How many of the jobs of runs under an opening key add to a counter.
TallyUnder(runs, key, counter) ==
    Docs(runs, {i \in DOMAIN runs :
                   /\ runs[i].status = COMPLETED
                   /\ OpeningKey(runs[i]) = key
                   /\ Tally(runs[i]) = counter})

NoGames == [c \in Colors |-> [t \in {"wins", "losses", "draws"} |-> 0]]

\* C14: the wins, losses and draws of every opening entry and of the
\* breakdown by colour are those of the COMPLETED jobs with a recorded game
\* result alone: a COMPLETED job whose metadata.result is "*" or empty, and a
\* job that is not COMPLETED, changes none of them.
C14_CountersFromRecordedResults ==
    reply.kind = "summary" =>
        LET out == reply.summary.most_played_openings
            breakdown == IF reply.summary.performance_by_color = {} THEN NoGames
                         ELSE CHOOSE perf \in reply.summary.performance_by_color : TRUE
            kept == WithRecordedResult(SummaryCompleted(owned))
        IN /\ breakdown = getPerformanceByColor(kept)
           /\ \A k \in DOMAIN out :
                 \A t \in {"wins", "losses", "draws"} :
                    out[k][t] = TallyUnder(kept, out[k].opening \o <<"|">> \o out[k].eco, t)

\* C15: with the same documents, the stats object of getDashboardSummary is
\* the result of getDashboardStats, however many COMPLETED jobs there are.
C15_SummaryStatsEqualStats ==
    [][(reply.kind = "stats" /\ reply'.kind = "summary" /\ owned' = owned)
          => reply'.summary.stats = reply.stats]_vars

\* ------------------------------------------------------- claims, continued
Last(w) == trail[w][Len(trail[w])]

\* C21: when the payload analyzeGame read has no puzzles (the array missing
\* or empty), analyzeGame returns, savePuzzles is never called, and the
\* invocation goes on to save COMPLETED with an empty list of references; as
\* the only invocation to process the analysis, once that save succeeds the
\* analysis is stored COMPLETED, references no puzzle and has no Puzzle
\* document.
C21_NoPuzzlesStillCompletes ==
    \A w \in Workers :
        (text[w] # <<>> /\ AnalyzeError(text[w]) = "" /\ PuzzlesOf(JsonMatch(text[w])) = 0) =>
            /\ Took(w, "analyzeGame:ok")
            /\ puzzleObjects[w] = 0
            /\ pc[w] # "savePuzzles"
            /\ ~Took(w, "savePuzzles:ok") /\ ~Took(w, "savePuzzles:err")
            /\ doc[w].result.puzzles = <<>>
            /\ Last(w) = "analyzeGame:ok" => pc[w] = "saveCompleted" /\ doc[w].status = COMPLETED
            /\ Took(w, "saveFailed:ok") => Took(w, "saveCompleted:err")
            /\ (Last(w) = "saveCompleted:ok" /\ Alone(w)) =>
                  /\ analyses[arg[w]].status = COMPLETED
                  /\ analyses[arg[w]].result.puzzles = <<>>
                  /\ PuzzlesFor(arg[w]) = {}

\* C21 witness: the signed-in user's analysis COMPLETED from a payload without
\* puzzles.
C21_Witness ==
    \E w \in Workers :
        /\ text[w] = <<"{", "s", "}">>
        /\ Alone(w)
        /\ arg[w] \in StoredIds
        /\ analyses[arg[w]].user_id # Guest
        /\ Last(w) = "saveCompleted:ok"
        /\ analyses[arg[w]].status = COMPLETED

\* The calls of generateText an invocation has made.
CallLabels == {"analyzeGame:serviceError", "analyzeGame:parseError", "analyzeGame:ok"}

CallsMade(w) == Cardinality({i \in DOMAIN trail[w] : trail[w][i] \in CallLabels})

\* C22: an invocation calls the reasoning service at most once; after a
\* service error or an unreadable response it goes to record FAILED and
\* nothing else, and as the only invocation to process the analysis, once its
\* save succeeds the analysis is stored FAILED with the failure's message.
C22_NoRetry ==
    \A w \in Workers :
        /\ CallsMade(w) <= 1
        /\ (Took(w, "analyzeGame:serviceError") \/ Took(w, "analyzeGame:parseError")) =>
              /\ pc[w] \in {"saveFailed", "done"}
              /\ Last(w) \in CallLabels \cup {"saveFailed:ok", "saveFailed:err"}
              /\ doc[w].status = FAILED
              /\ doc[w].error \in {MsgService} \cup ParseFailureMessages
              /\ (Alone(w) /\ Last(w) = "saveFailed:ok") =>
                    /\ analyses[arg[w]].status = FAILED
                    /\ analyses[arg[w]].error = doc[w].error
                    /\ genCalls[arg[w]] = 1

\* C22 witness: FAILED stored after one call whose response did not parse.
C22_Witness ==
    \E w \in Workers :
        /\ Took(w, "analyzeGame:parseError") /\ Alone(w)
        /\ Last(w) = "saveFailed:ok"
        /\ genCalls[arg[w]] = 1
        /\ analyses[arg[w]].error = MsgSyntax

\* C29: an invocation whose save of PROCESSING failed makes no reasoning call
\* and no savePuzzles call; all it does afterwards is the save of FAILED with
\* the write error's message.
C29_ProcessingSaveFailure ==
    \A w \in Workers :
        Took(w, "saveProcessing:err") =>
            /\ SubSeq(trail[w], 1, 2) = <<"begin", "saveProcessing:err">>
            /\ Len(trail[w]) <= 3
            /\ Len(trail[w]) = 3 => trail[w][3] \in {"saveFailed:ok", "saveFailed:err"}
            /\ Len(trail[w]) = 2 => pc[w] = "saveFailed"
            /\ text[w] = <<>>
            /\ puzzleIds[w] = <<>>
            /\ doc[w].status = FAILED
            /\ doc[w].error = MsgSave
            /\ modified[w] \subseteq {"status", "error"}

\* C29 witness: FAILED stored with the write error's message, with no
\* reasoning call made for the analysis and no Puzzle document.
C29_Witness ==
    \E w \in Workers :
        /\ trail[w] = <<"begin", "saveProcessing:err", "saveFailed:ok">>
        /\ analyses[arg[w]].status = FAILED
        /\ analyses[arg[w]].error = MsgSave
        /\ genCalls[arg[w]] = 0
        /\ puzzles = {}

\* The fields of an analysis that are set when it is created.
CreationFields == {"analysis_id", "user_id", "pgn", "player_name", "player_color", "metadata"}

\* C26: no step of any invocation changes the id, owner, pgn, player name,
\* player colour or metadata of a stored analysis.
C26_CreationFieldsKept ==
    [][\A id \in StoredIds :
          \A f \in CreationFields : analyses'[id][f] = analyses[id][f]]_vars

\* C26 witness: one analysis stored COMPLETED and the other FAILED, by two
\* invocations, each still with the fields it was created with.
C26_Witness ==
    /\ analyses["a1"].status = COMPLETED
    /\ analyses["a2"].status = FAILED
    /\ \A id \in StoredIds :
          \A f \in CreationFields :
             analyses[id][f] = NewAnalysis(id, IF id = "a1" THEN "u1" ELSE Guest)[f]

\* C25: when savePuzzles fails for an invocation, the only one to process its
\* analysis, no Puzzle document of that analysis exists, the invocation's
\* result references no puzzle, and so does the stored result once the save of
\* COMPLETED has succeeded.
C25_BatchAllOrNothing ==
    \A w \in Workers :
        (Took(w, "savePuzzles:err") /\ Alone(w)) =>
            /\ PuzzlesFor(arg[w]) = {}
            /\ doc[w].result.puzzles = <<>>
            /\ Last(w) = "saveCompleted:ok" => analyses[arg[w]].result.puzzles = <<>>

\* C25 witness: the reasoning service returned two puzzle objects, savePuzzles
\* failed and the analysis is stored COMPLETED.
C25_Witness ==
    \E w \in Workers :
        /\ Took(w, "savePuzzles:err") /\ Alone(w)
        /\ puzzleObjects[w] = 2
        /\ PuzzlesFor(arg[w]) = {}
        /\ Last(w) = "saveCompleted:ok"
        /\ analyses[arg[w]].status = COMPLETED

\* C27: every puzzle reference of a stored COMPLETED analysis is the id of a
\* Puzzle document of that analysis and of its owner, and no reference occurs
\* twice.
C27_ReferencesResolve ==
    \A id \in StoredIds :
        (analyses[id].status = COMPLETED /\ analyses[id].result # Unset) =>
            LET refs == analyses[id].result.puzzles
            IN /\ \A i \in DOMAIN refs :
                     \E p \in puzzles :
                        /\ p.puzzle_id = refs[i]
                        /\ p.analysis_id = id
                        /\ p.user_id = analyses[id].user_id
               /\ \A i, j \in DOMAIN refs : refs[i] = refs[j] => i = j

\* C27 witness: an analysis stored COMPLETED with two references, where two
\* invocations have each saved puzzles for it.
C27_Witness ==
    \E id \in StoredIds :
        /\ analyses[id].status = COMPLETED
        /\ Len(analyses[id].result.puzzles) = 2
        /\ Cardinality(PuzzlesFor(id)) = 4

\* The most puzzle objects one response of the reasoning service holds.
MostPuzzles == Max({PuzzlesOf(JsonMatch(t)) : t \in {u \in GeminiTexts : AnalyzeError(u) = ""}})

\* C28: once an analysis is stored COMPLETED or FAILED, every Puzzle document
\* of it is referenced by its result: a FAILED analysis has none, and a
\* COMPLETED one has no more than one response holds.
C28_NoOrphanPuzzles ==
    \A id \in StoredIds :
        analyses[id].status \in Terminal =>
            /\ \A p \in PuzzlesFor(id) :
                  /\ analyses[id].result # Unset
                  /\ \E i \in DOMAIN analyses[id].result.puzzles :
                        analyses[id].result.puzzles[i] = p.puzzle_id
            /\ analyses[id].status = FAILED => PuzzlesFor(id) = {}
            /\ analyses[id].status = COMPLETED => Cardinality(PuzzlesFor(id)) <= MostPuzzles

\* The six counters of a breakdown by colour, added up.
GamesIn(perf) ==
    perf["white"]["wins"] + perf["white"]["losses"] + perf["white"]["draws"]
    + perf["black"]["wins"] + perf["black"]["losses"] + perf["black"]["draws"]

\* C30: in every entry of the opening ranking wins + losses + draws is the
\* entry's count, and the six counters of the breakdown by colour add up to
\* the number of COMPLETED jobs, among those the summary fetched, that have a
\* player colour.
C30_CountersAddUp ==
    reply.kind = "summary" =>
        LET out == reply.summary.most_played_openings
            jobs == SummaryCompleted(owned)
            coloured == Docs(jobs, {i \in DOMAIN jobs : jobs[i].player_color \in Colors})
        IN /\ \A k \in DOMAIN out :
                 out[k].wins + out[k].losses + out[k].draws = out[k].count
           /\ \A perf \in reply.summary.performance_by_color : GamesIn(perf) = coloured
           /\ reply.summary.performance_by_color = {} => coloured = 0

\* C30 witness: a summary over three COMPLETED games, one of them with
\* result "*" played as white, one drawn and one without a player colour.
C30_Witness ==
    /\ reply.kind = "summary"
    /\ Len(owned) = 3
    /\ owned[1] = Run(1, COMPLETED, "*", "white", <<"Sicilian">>, <<"B20">>)
    /\ owned[2] = Run(1, COMPLETED, "1/2-1/2", "black", <<"Sicilian">>, <<"B20">>)
    /\ owned[3] = Run(1, COMPLETED, "1-0", NoColor, <<"Sicilian">>, <<"B20">>)
    /\ reply.summary.most_played_openings[1].count = 3
    /\ \E perf \in reply.summary.performance_by_color : GamesIn(perf) = 2

NoCrash == \A w \in Workers : pc[w] # "crashed"

AllSettle == \A w \in Workers : pc[w] \notin Unsettled

\* C23: with no crash, an analysis stored PROCESSING eventually leaves
\* PROCESSING, also when the reasoning call or the savePuzzles call never
\* answers.
C23_UnansweredCallsExpire ==
    ([]NoCrash) => \A id \in StoredIds :
                      (analyses[id].status = PROCESSING) ~> (analyses[id].status # PROCESSING)

\* C24: with no crash, every awaited call settling and every write accepted,
\* an analysis stored PROCESSING is eventually stored COMPLETED or FAILED.
C24_ProcessingReachesTerminal ==
    ([]NoCrash /\ []AllSettle) =>
        \A id \in StoredIds :
           (analyses[id].status = PROCESSING) ~> (analyses[id].status \in Terminal)

\* C24 witness: every invocation has saved PROCESSING and run to its end, and
\* both analyses are stored in a terminal state.
C24_Witness ==
    /\ \A w \in Workers : Took(w, "saveProcessing:ok") /\ pc[w] = "done"
    /\ \A id \in StoredIds : analyses[id].status \in Terminal
====
